---- MODULE Spec2Model ----
(***************************************************************************)
(* Discrete rasterization of a segment and of a circle, as implemented in  *)
(* 3lab/rasterization.py (bresenham_line, bresenham_circle).               *)
(*                                                                         *)
(* A behaviour is one call of bresenham_circle, or one call of             *)
(* bresenham_line followed by a second call with the endpoints exchanged.  *)
(* Every loop iteration of the Python code is one action; the local        *)
(* variables of the functions are the variables of the module.             *)
(***************************************************************************)
EXTENDS Integers, Sequences, FiniteSets

VARIABLES
    call,         \* which function is running: "line" or "circle"
    phase,        \* 1: first call, 2: the call with exchanged endpoints
    args,         \* the arguments the current call was made with
    first,        \* the list returned by the first call (phase 2 only)
    pc,           \* position in the running function
    points,       \* the list `points`
    x0, y0, x1, y1, dx, dy, steep, error, delta_error, y_step,
    x, y,         \* loop variable / local coordinates (both functions)
    center_x, center_y, radius, d

vars == <<call, phase, args, first, pc, points, x0, y0, x1, y1, dx, dy,
          steep, error, delta_error, y_step, x, y, center_x, center_y,
          radius, d>>

lineLocals == <<dx, dy, steep, error, delta_error, y_step>>
circleVars == <<center_x, center_y, radius, d>>

----------------------------------------------------------------------------
(* Bounds of the explored inputs *)

MaxCoord == 3
MaxCenter == 1
MaxRadius == 12
MaxNegRadius == 2

(* The calls made by main() *)
DemoLine == <<10, 10, 80, 50>>
DemoCircle == <<40, 30, 20>>

Coords == (0 - MaxCoord)..MaxCoord
Centers == (0 - MaxCenter)..MaxCenter

LineInputs == (Coords \X Coords \X Coords \X Coords) \cup {DemoLine}
CircleInputs ==
    (Centers \X Centers \X ((0 - MaxNegRadius)..MaxRadius)) \cup {DemoCircle}

----------------------------------------------------------------------------
(* Python builtins used by the code *)

abs(n) == IF n < 0 THEN 0 - n ELSE n
min(a, b) == IF a < b THEN a ELSE b
max(a, b) == IF a > b THEN a ELSE b

Range(s) == {s[i] : i \in 1..Len(s)}

----------------------------------------------------------------------------
(* bresenham_line *)

VerticalStop_Exclusive(a, b) == max(a, b)
\* range(min(y0, y1), max(y0, y1) + 1): the exclusive upper end
VerticalStop(a, b) == max(a, b) + 1

\* steep = dy > dx
IsSteep(ddx, ddy) == ddy > ddx

NormalizedEnds_XOnly(a0, b0, a1, b1) ==
    IF a0 > a1 THEN <<a1, b0, a0, b1>> ELSE <<a0, b0, a1, b1>>
\* if x0 > x1: x0, x1 = x1, x0; y0, y1 = y1, y0
NormalizedEnds(a0, b0, a1, b1) ==
    IF a0 > a1 THEN <<a1, b1, a0, b0>> ELSE <<a0, b0, a1, b1>>

YStep_Up(b0, b1) == 1
\* y_step = 1 if y1 > y0 else -1
YStep(b0, b1) == IF b1 > b0 THEN 1 ELSE 0 - 1

ErrorCarry_NoDoubling(err, ddx) == err >= ddx
\* if 2 * error >= dx
ErrorCarry(err, ddx) == 2 * err >= ddx

NextY_Twice(b, step) == b + 2 * step
\* y += y_step
NextY(b, step) == b + step

\* points.append((y, x)) if steep else points.append((x, y))
Emit(st, a, b) == IF st THEN <<b, a>> ELSE <<a, b>>

\* if x0 == x1: the loop over range(min(y0, y1), max(y0, y1) + 1) starts
LineVerticalBegin ==
    /\ pc = "l_entry"
    /\ x0 = x1
    /\ points' = <<>>
    /\ y' = min(y0, y1)
    /\ pc' = "l_vert"
    /\ UNCHANGED <<call, phase, args, first, x0, y0, x1, y1, x,
                   lineLocals, circleVars>>

\* one iteration of the vertical loop: points.append((x0, y))
LineVerticalStep ==
    /\ pc = "l_vert"
    /\ y < VerticalStop(y0, y1)
    /\ points' = Append(points, <<x0, y>>)
    /\ y' = y + 1
    /\ UNCHANGED <<call, phase, args, first, pc, x0, y0, x1, y1, x,
                   lineLocals, circleVars>>

\* the vertical loop is exhausted: return points
LineVerticalReturn ==
    /\ pc = "l_vert"
    /\ ~(y < VerticalStop(y0, y1))
    /\ pc' = "done"
    /\ UNCHANGED <<call, phase, args, first, points, x0, y0, x1, y1, x, y,
                   lineLocals, circleVars>>

\* x0 != x1: deltas, transpose of a steep segment, left-to-right
\* normalization, and the parameters of the walk
LineSetup ==
    /\ pc = "l_entry"
    /\ x0 # x1
    /\ LET adx == abs(x1 - x0)
           ady == abs(y1 - y0)
           st  == IsSteep(adx, ady)
           t   == IF st THEN <<y0, x0, y1, x1>> ELSE <<x0, y0, x1, y1>>
           n   == NormalizedEnds(t[1], t[2], t[3], t[4])
       IN  /\ steep' = st
           /\ dx' = IF st THEN ady ELSE adx
           /\ dy' = IF st THEN adx ELSE ady
           /\ x0' = n[1]
           /\ y0' = n[2]
           /\ x1' = n[3]
           /\ y1' = n[4]
           /\ error' = 0
           /\ delta_error' = dy'
           /\ y' = n[2]
           /\ y_step' = YStep(n[2], n[4])
           /\ x' = n[1]
    /\ points' = <<>>
    /\ pc' = "l_loop"
    /\ UNCHANGED <<call, phase, args, first, circleVars>>

\* one iteration of `for x in range(x0, x1 + 1)`
LineStep ==
    /\ pc = "l_loop"
    /\ x < x1 + 1
    /\ points' = Append(points, Emit(steep, x, y))
    /\ LET e == error + delta_error
       IN  IF ErrorCarry(e, dx)
           THEN /\ y' = NextY(y, y_step)
                /\ error' = e - dx
           ELSE /\ y' = y
                /\ error' = e
    /\ x' = x + 1
    /\ UNCHANGED <<call, phase, args, first, pc, x0, y0, x1, y1, dx, dy,
                   steep, delta_error, y_step, circleVars>>

\* the walk is exhausted: return points
LineReturn ==
    /\ pc = "l_loop"
    /\ ~(x < x1 + 1)
    /\ pc' = "done"
    /\ UNCHANGED <<call, phase, args, first, points, x0, y0, x1, y1, x, y,
                   lineLocals, circleVars>>

\* bresenham_line is called again with the two endpoints exchanged
CallReversed ==
    /\ call = "line"
    /\ phase = 1
    /\ pc = "done"
    /\ first' = points
    /\ phase' = 2
    /\ args' = <<args[3], args[4], args[1], args[2]>>
    /\ x0' = args[3]
    /\ y0' = args[4]
    /\ x1' = args[1]
    /\ y1' = args[2]
    /\ points' = <<>>
    /\ dx' = 0 /\ dy' = 0 /\ steep' = FALSE /\ error' = 0
    /\ delta_error' = 0 /\ y_step' = 0 /\ x' = 0 /\ y' = 0
    /\ pc' = "l_entry"
    /\ UNCHANGED <<call, circleVars>>

----------------------------------------------------------------------------
(* bresenham_circle *)

add_circle_points_Typo(pts, cx, cy, ox, oy) ==
    pts \o << <<cx + ox, cy + oy>>, <<cx - ox, cy + oy>>,
              <<cx + ox, cy - oy>>, <<cx - ox, cy - oy>>,
              <<cx + oy, cy + ox>>, <<cx - oy, cy + ox>>,
              <<cx + oy, cy - ox>>, <<cx - oy, cy + ox>> >>
\* points.extend([...]) with the eight reflections of the offset (ox, oy)
add_circle_points(pts, cx, cy, ox, oy) ==
    pts \o << <<cx + ox, cy + oy>>, <<cx - ox, cy + oy>>,
              <<cx + ox, cy - oy>>, <<cx - ox, cy - oy>>,
              <<cx + oy, cy + ox>>, <<cx - oy, cy + ox>>,
              <<cx + oy, cy - ox>>, <<cx - oy, cy - ox>> >>

FlatStep_Always(dd) == TRUE
\* if d < 0
FlatStep(dd) == dd < 0

\* x = 0; y = radius; d = 3 - 2 * radius; the first add_circle_points
CircleEntry ==
    /\ pc = "c_entry"
    /\ x' = 0
    /\ y' = radius
    /\ d' = 3 - 2 * radius
    /\ points' = add_circle_points(<<>>, center_x, center_y, 0, radius)
    /\ pc' = "c_loop"
    /\ UNCHANGED <<call, phase, args, first, x0, y0, x1, y1, lineLocals,
                   center_x, center_y, radius>>

\* one iteration of `while x <= y`
CircleStep ==
    /\ pc = "c_loop"
    /\ x <= y
    /\ IF FlatStep(d)
       THEN /\ d' = d + 4 * x + 6
            /\ y' = y
       ELSE /\ d' = d + 4 * (x - y) + 10
            /\ y' = y - 1
    /\ x' = x + 1
    /\ points' = add_circle_points(points, center_x, center_y, x', y')
    /\ UNCHANGED <<call, phase, args, first, pc, x0, y0, x1, y1, lineLocals,
                   center_x, center_y, radius>>

\* x > y: return points
CircleReturn ==
    /\ pc = "c_loop"
    /\ ~(x <= y)
    /\ pc' = "done"
    /\ UNCHANGED <<call, phase, args, first, points, x0, y0, x1, y1, x, y,
                   lineLocals, circleVars>>

----------------------------------------------------------------------------

\* bresenham_line is entered with integer arguments, on which the
\* conversion int(...) of its first statement returns its argument
InitLine ==
    /\ call = "line"
    /\ args \in LineInputs
    /\ x0 = args[1] /\ y0 = args[2] /\ x1 = args[3] /\ y1 = args[4]
    /\ center_x = 0 /\ center_y = 0 /\ radius = 0
    /\ pc = "l_entry"

\* bresenham_circle is entered with an integer center and radius
InitCircle ==
    /\ call = "circle"
    /\ args \in CircleInputs
    /\ center_x = args[1] /\ center_y = args[2] /\ radius = args[3]
    /\ x0 = 0 /\ y0 = 0 /\ x1 = 0 /\ y1 = 0
    /\ pc = "c_entry"

Init ==
    /\ phase = 1
    /\ first = <<>>
    /\ points = <<>>
    /\ dx = 0 /\ dy = 0 /\ steep = FALSE /\ error = 0
    /\ delta_error = 0 /\ y_step = 0 /\ x = 0 /\ y = 0 /\ d = 0
    /\ (InitLine \/ InitCircle)

Next ==
    \/ LineVerticalBegin
    \/ LineVerticalStep
    \/ LineVerticalReturn
    \/ LineSetup
    \/ LineStep
    \/ LineReturn
    \/ CallReversed
    \/ CircleEntry
    \/ CircleStep
    \/ CircleReturn

Spec == Init /\ [][Next]_vars

----------------------------------------------------------------------------
(* Properties of bresenham_line *)

LineDone == call = "line" /\ pc = "done"

\* the number of the major axis of the call's segment: 2 (y) for a vertical
\* or steep segment, 1 (x) otherwise
Dominant ==
    IF args[1] = args[3] \/ abs(args[4] - args[2]) > abs(args[3] - args[1])
    THEN 2 ELSE 1

\* C1: the list returned by bresenham_line(x0, y0, x1, y1) contains both
\* (x0, y0) and (x1, y1), whatever the direction and slope of the segment.
C1_EndpointsIncluded ==
    LineDone => /\ <<args[1], args[2]>> \in Range(points)
                /\ <<args[3], args[4]>> \in Range(points)

\* a steep segment given from its upper-right end to its lower-left end has
\* been rasterized and both ends are in the list
C1_Witness ==
    /\ LineDone
    /\ steep
    /\ args[1] > args[3]
    /\ args[2] > args[4]
    /\ Len(points) >= 4
    /\ <<args[1], args[2]>> \in Range(points)
    /\ <<args[3], args[4]>> \in Range(points)

\* C4: any two consecutive points of the list built by bresenham_line differ
\* by at most 1 in x and by at most 1 in y (vertical, steep, non-steep).
C4_EightConnected ==
    call = "line" =>
        \A k \in 1..(Len(points) - 1) :
            /\ abs(points[k + 1][1] - points[k][1]) <= 1
            /\ abs(points[k + 1][2] - points[k][2]) <= 1

\* a steep, non-vertical segment has been rasterized, and the list has a
\* diagonal move and a straight move
C4_Witness ==
    /\ LineDone
    /\ steep
    /\ \E k \in 1..(Len(points) - 1) :
           /\ points[k + 1][1] # points[k][1]
           /\ points[k + 1][2] # points[k][2]
    /\ \E k \in 1..(Len(points) - 1) : points[k + 1][1] = points[k][1]

\* C5: bresenham_line(x0, y0, x1, y1) and bresenham_line(x1, y1, x0, y0)
\* return the same set of points.
C5_ReversalSameSet ==
    (LineDone /\ phase = 2) => Range(points) = Range(first)

\* the call with exchanged ends of an oblique segment has returned, and it
\* returned what the first call returned
C5_Witness ==
    /\ LineDone
    /\ phase = 2
    /\ args[1] # args[3]
    /\ args[2] # args[4]
    /\ abs(args[4] - args[2]) # abs(args[3] - args[1])
    /\ Len(first) >= 3
    /\ Range(points) = Range(first)

\* C6: bresenham_line returns max(|x1 - x0|, |y1 - y0|) + 1 points, the
\* major coordinate grows by exactly 1 from each point to the next; equal
\* ends (a, b) give the single point (a, b), and (10,10)-(80,50) gives 71
\* points from (10,10) to (80,50).
C6_OnePointPerMajorStep ==
    LineDone =>
        /\ Len(points) =
               max(abs(args[3] - args[1]), abs(args[4] - args[2])) + 1
        /\ \A k \in 1..(Len(points) - 1) :
               points[k + 1][Dominant] = points[k][Dominant] + 1
        /\ (args[1] = args[3] /\ args[2] = args[4])
               => points = << <<args[1], args[2]>> >>
        /\ args = DemoLine
               => /\ Len(points) = 71
                  /\ points[1] = <<10, 10>>
                  /\ points[71] = <<80, 50>>

\* the call made by main() has returned its 71 points
C6_Witness ==
    /\ LineDone
    /\ args = DemoLine
    /\ Len(points) = 71
    /\ points[1] = <<10, 10>>
    /\ points[71] = <<80, 50>>

\* the transposed coordinates of an emitted point
Transposed(p) == IF steep THEN <<p[2], p[1]>> ELSE p

\* C10: for x0 # x1, with (x0, y0), (x1, y1) the ends after the transpose
\* and the left-to-right normalization, the k-th emitted point is
\* (x0 + k, y_k) in transposed coordinates with
\* 2 * |dx * (y_k - y0) - k * (y1 - y0)| <= dx; the error accumulator
\* satisfies -dx <= 2 * error < dx after every step and y moves by at most
\* one cell per step.
C10_ClosestCell ==
    (call = "line" /\ pc \in {"l_loop", "done"} /\ args[1] # args[3]) =>
        /\ dx = x1 - x0
        /\ \A k \in 1..Len(points) :
               /\ Transposed(points[k])[1] = x0 + (k - 1)
               /\ 2 * abs(dx * (Transposed(points[k])[2] - y0)
                            - (k - 1) * (y1 - y0)) <= dx
        /\ 0 - dx <= 2 * error
        /\ 2 * error < dx
        /\ \A k \in 1..(Len(points) - 1) :
               abs(Transposed(points[k + 1])[2]
                     - Transposed(points[k])[2]) <= 1

\* a steep segment walked right to left was transposed and normalized, the
\* walk is over, and y both moved and stayed during it
C10_Witness ==
    /\ LineDone
    /\ steep
    /\ args[2] > args[4]
    /\ dy > 0
    /\ dx > dy
    /\ Len(points) = dx + 1
    /\ 2 * abs(dx * (Transposed(points[2])[2] - y0) - (y1 - y0)) <= dx

----------------------------------------------------------------------------
(* Properties of bresenham_circle *)

\* four times the squared distance of a point to the center of the circle
FourDist2(p) ==
    4 * ((p[1] - center_x) * (p[1] - center_x)
           + (p[2] - center_y) * (p[2] - center_y))

\* C2: for radius < 0, bresenham_circle fails with an invalid-argument
\* condition before any computation, and no point is produced.
C2_NegativeRadiusRejected ==
    (call = "circle" /\ radius < 0 /\ pc # "c_entry") =>
        (pc = "failed" /\ points = <<>>)

\* C3: every point of the list built by bresenham_circle(cx, cy, 0) is the
\* center (cx, cy).
C3_ZeroRadiusOnlyCenter ==
    (call = "circle" /\ radius = 0) =>
        \A p \in Range(points) : p = <<center_x, center_y>>

\* C7 as stated: for radius >= 0 every point of the list satisfies
\* (2r - 3)^2 <= 4 * dist^2 < (2r + 3)^2.
C7_IntegerBand ==
    (call = "circle" /\ radius >= 0) =>
        \A p \in Range(points) :
            /\ (2 * radius - 3) * (2 * radius - 3) <= FourDist2(p)
            /\ FourDist2(p) < (2 * radius + 3) * (2 * radius + 3)

\* C7 amended: for radius >= 0 the distance of every point of the list to
\* the center, rounded to the nearest integer, is within 1 of the radius:
\* 4 * dist^2 < (2r + 3)^2, and (2r - 3)^2 <= 4 * dist^2 when r >= 2 (for
\* r <= 1 the rounded distance cannot be too small); for main()'s circle
\* the rounded distances are in {19, 20, 21}.
C7_RoundedDistanceWithinOne ==
    (call = "circle" /\ radius >= 0) =>
        \A p \in Range(points) :
            /\ FourDist2(p) < (2 * radius + 3) * (2 * radius + 3)
            /\ radius >= 2 =>
                   (2 * radius - 3) * (2 * radius - 3) <= FourDist2(p)
            /\ args = DemoCircle =>
                   (37 * 37 <= FourDist2(p) /\ FourDist2(p) < 43 * 43)

\* the call made by main() has returned, its last iteration went past the
\* diagonal, and the points of that iteration are in the band
C7_Witness ==
    /\ call = "circle"
    /\ pc = "done"
    /\ args = DemoCircle
    /\ x > y
    /\ Len(points) > 64
    /\ \A k \in (Len(points) - 7)..Len(points) :
           /\ 37 * 37 <= FourDist2(points[k])
           /\ FourDist2(points[k]) < 43 * 43

\* C8: for radius >= 0 the set of points of the list is closed under the
\* reflection across x = cx and under the reflection across y = cy.
C8_ReflectionClosed ==
    (call = "circle" /\ radius >= 0) =>
        \A p \in Range(points) :
            /\ <<2 * center_x - p[1], p[2]>> \in Range(points)
            /\ <<p[1], 2 * center_y - p[2]>> \in Range(points)

\* main()'s circle has returned, and a point off both axes of the circle
\* has its two reflections in the list
C8_Witness ==
    /\ call = "circle"
    /\ pc = "done"
    /\ args = DemoCircle
    /\ \E p \in Range(points) :
           /\ p[1] # center_x
           /\ p[2] # center_y
           /\ <<2 * center_x - p[1], p[2]>> \in Range(points)
           /\ <<p[1], 2 * center_y - p[2]>> \in Range(points)

\* C9: for radius >= 0 every pair of offsets (x, y) passed to
\* add_circle_points, from the first call through the last loop iteration,
\* satisfies 0 <= x <= y.
C9_FirstOctantOffsets ==
    (call = "circle" /\ radius >= 0 /\ pc \in {"c_loop", "done"}) =>
        (0 <= x /\ x <= y)

====
